---- MODULE Spec2Model ----
(***************************************************************************)
(* Binary heap of heap.py: class Heap with its constructor, heapify, pop,  *)
(* peek, insert and _push_down.  Python lists are objects held by          *)
(* reference: `lists` is the store of list objects and `self_items` is the *)
(* reference the attribute self._items holds.  Indices are the code's      *)
(* zero-based indices; At/Put translate them to TLA+ sequences.            *)
(***************************************************************************)
EXTENDS Integers, Sequences, FiniteSets, TLC

\* ------------------------------------------------------------------ bounds
\* Elements are the integers 0..MaxVal.
MaxVal == 1
\* Longest sequence handed to the constructor.
MaxInit == 4
\* Most insert calls in one life of a heap.
MaxInserts == 1

\* Longest sequence handed to heapify from outside the heap.
MaxExt == 6
\* Longest sequence for which heapify's first index is computed.
MaxCount == 64

Values == 0..MaxVal

RECURSIVE SeqsUpTo(_)
SeqsUpTo(n) ==
    IF n = 0 THEN {<<>>}
    ELSE LET shorter == SeqsUpTo(n - 1)
         IN  shorter \cup {Append(s, v) : s \in {t \in shorter : Len(t) = n - 1}, v \in Values}

InitSeqs == SeqsUpTo(MaxInit)
ExtSeqs == SeqsUpTo(MaxExt)

\* ------------------------------------------------------- values of the code
None == "None"
TypeError == "TypeError"

\* HeapType = enum.Enum('HeapType', ('MIN', 'MAX'))
HeapType == {"MIN", "MAX"}

\* operator.le and operator.ge, the comparators the code can hold.
Comparators == {"le", "ge"}

\* comparator(a, b)
Call(comparator, a, b) ==
    IF comparator = "le" THEN a <= b ELSE a >= b

\* items[i] and items[i] = v for the code's zero-based index i.
At(items, i) == items[i + 1]
Put(items, i, v) == [items EXCEPT ![i + 1] = v]

\* ------------------------------------------------------------- _push_down
\* _push_down without its second assignment (items[child_i] = item): the
\* child is copied up over the item and the item is written nowhere.
RECURSIVE PushDownLoopOverwrites(_, _, _, _)
PushDownLoopOverwrites(items, i, item, comparator) ==
    LET size == Len(items)
        left_i == 2 * i + 1
        right_i == left_i + 1
    IN  IF ~(left_i < size) THEN items
        ELSE LET takeRight == right_i < size
                              /\ Call(comparator, At(items, right_i), At(items, left_i))
                 child_i == IF takeRight THEN right_i ELSE left_i
                 child == At(items, child_i)
             IN  IF Call(comparator, child, item)
                 THEN PushDownLoopOverwrites(Put(items, i, child), child_i, item, comparator)
                 ELSE items

\* The while loop of _push_down; `item` is read once before the loop.
RECURSIVE PushDownLoop(_, _, _, _)
PushDownLoop(items, i, item, comparator) ==
    LET size == Len(items)
        left_i == 2 * i + 1
        right_i == left_i + 1
    IN  IF ~(i < size) THEN items
        ELSE IF ~(left_i < size) THEN items
        ELSE LET takeRight == right_i < size
                              /\ Call(comparator, At(items, right_i), At(items, left_i))
                 child_i == IF takeRight THEN right_i ELSE left_i
                 child == At(items, child_i)
             IN  IF Call(comparator, child, item)
                 THEN PushDownLoop(Put(Put(items, i, child), child_i, item),
                                   child_i, item, comparator)
                 ELSE items

\* A pass of _push_down that ends the loop once it has swapped (a break after
\* i = child_i).
PushDownIterationEndsAfterSwap(items, i, item, comparator) ==
    LET size == Len(items)
        left_i == 2 * i + 1
        right_i == left_i + 1
        stop == [items |-> items, i |-> i, swapped |-> FALSE, done |-> TRUE]
    IN  IF ~(left_i < size) THEN stop
        ELSE LET takeRight == right_i < size
                              /\ Call(comparator, At(items, right_i), At(items, left_i))
                 child_i == IF takeRight THEN right_i ELSE left_i
                 child == At(items, child_i)
             IN  IF Call(comparator, child, item)
                 THEN [items |-> Put(Put(items, i, child), child_i, item),
                       i |-> child_i, swapped |-> TRUE, done |-> TRUE]
                 ELSE stop

\* A pass of _push_down that takes the right child only when the left child
\* does not precede it (if right_i < size and not comparator(child, items[right_i])).
PushDownIterationLeftFirst(items, i, item, comparator) ==
    LET size == Len(items)
        left_i == 2 * i + 1
        right_i == left_i + 1
        stop == [items |-> items, i |-> i, swapped |-> FALSE, done |-> TRUE]
    IN  IF ~(left_i < size) THEN stop
        ELSE LET takeRight == right_i < size
                              /\ ~Call(comparator, At(items, left_i), At(items, right_i))
                 child_i == IF takeRight THEN right_i ELSE left_i
                 child == At(items, child_i)
             IN  IF Call(comparator, child, item)
                 THEN [items |-> Put(Put(items, i, child), child_i, item),
                       i |-> child_i, swapped |-> TRUE, done |-> FALSE]
                 ELSE stop

\* One pass of the while loop of _push_down with the loop at index i: the
\* list it leaves, the index it goes on from, whether it swapped and whether
\* the loop has ended.
PushDownIteration(items, i, item, comparator) ==
    LET size == Len(items)
        left_i == 2 * i + 1
        right_i == left_i + 1
        stop == [items |-> items, i |-> i, swapped |-> FALSE, done |-> TRUE]
    IN  IF ~(i < size) THEN stop
        ELSE IF ~(left_i < size) THEN stop
        ELSE LET takeRight == right_i < size
                              /\ Call(comparator, At(items, right_i), At(items, left_i))
                 child_i == IF takeRight THEN right_i ELSE left_i
                 child == At(items, child_i)
             IN  IF Call(comparator, child, item)
                 THEN [items |-> Put(Put(items, i, child), child_i, item),
                       i |-> child_i, swapped |-> TRUE, done |-> FALSE]
                 ELSE stop

\* _push_down that looks at the left child alone.
RECURSIVE PushDownLeftLoop(_, _, _, _)
PushDownLeftLoop(items, i, item, comparator) ==
    LET left_i == 2 * i + 1
    IN  IF ~(left_i < Len(items)) THEN items
        ELSE IF Call(comparator, At(items, left_i), item)
             THEN PushDownLeftLoop(Put(Put(items, i, At(items, left_i)), left_i, item),
                                   left_i, item, comparator)
             ELSE items

push_down_left_only(items, i, comparator) ==
    PushDownLeftLoop(items, i, At(items, i), comparator)

\* _push_down with the arguments of its last test exchanged
\* (if comparator(item, child)).
RECURSIVE PushDownTestExchanged(_, _, _, _)
PushDownTestExchanged(items, i, item, comparator) ==
    LET size == Len(items)
        left_i == 2 * i + 1
        right_i == left_i + 1
    IN  IF ~(left_i < size) THEN items
        ELSE LET takeRight == right_i < size
                              /\ Call(comparator, At(items, right_i), At(items, left_i))
                 child_i == IF takeRight THEN right_i ELSE left_i
                 child == At(items, child_i)
             IN  IF Call(comparator, item, child)
                 THEN PushDownTestExchanged(Put(Put(items, i, child), child_i, item),
                                            child_i, item, comparator)
                 ELSE items

push_down_test_exchanged(items, i, comparator) ==
    PushDownTestExchanged(items, i, At(items, i), comparator)

push_down(items, i, comparator) ==
    PushDownLoop(items, i, At(items, i), comparator)

\* ---------------------------------------------------------------- heapify
\* math.floor(math.log(num_items, 2)) for num_items >= 1.
RECURSIVE FloorLog2(_)
FloorLog2(n) == IF n < 2 THEN 0 ELSE 1 + FloorLog2(n \div 2)

RECURSIVE Pow2(_)
Pow2(k) == IF k = 0 THEN 1 ELSE 2 * Pow2(k - 1)

\* heapify starting one level higher (2 ** (last_level - 1) - 1).
HeapifyStartsLevelAbove(num_items) == Pow2(FloorLog2(num_items) - 1) - 1

\* The index heapify starts its loop at.
HeapifyStart(num_items) == Pow2(FloorLog2(num_items)) - 1

\* The loop of heapify stopping before index 0 (while item_index > 0).
RECURSIVE HeapifyLoopSkipsRoot(_, _, _)
HeapifyLoopSkipsRoot(items, item_index, comparator) ==
    IF item_index > 0
    THEN HeapifyLoopSkipsRoot(push_down(items, item_index, comparator),
                              item_index - 1, comparator)
    ELSE items

\* The while loop of heapify: item_index down to 0.
RECURSIVE HeapifyLoop(_, _, _)
HeapifyLoop(items, item_index, comparator) ==
    IF item_index >= 0
    THEN HeapifyLoop(push_down(items, item_index, comparator), item_index - 1, comparator)
    ELSE items

heapify(items, comparator) ==
    IF Len(items) \in {0, 1} THEN items
    ELSE HeapifyLoop(items, HeapifyStart(Len(items)), comparator)

\* The indices heapify passes to _push_down, in call order.
RECURSIVE Countdown(_)
Countdown(i) == IF i < 0 THEN <<>> ELSE <<i>> \o Countdown(i - 1)

HeapifyCalls(items) ==
    IF Len(items) \in {0, 1} THEN <<>> ELSE Countdown(HeapifyStart(Len(items)))

\* ----------------------------------------------------------------- insert
\* What a method call leaves: the list self._items refers to, the item it
\* returned (<<>> for None), the exception it raised (None for none) and the
\* indices it passed to _push_down.
Outcome(items, ret, raised, calls) ==
    [items |-> items, ret |-> ret, raised |-> raised, calls |-> calls]

\* The sift-up loop stopping below the root (while parent_index > 0).
RECURSIVE InsertLoopStopsBelowRoot(_, _, _, _)
InsertLoopStopsBelowRoot(items, item_index, item, comparator) ==
    LET parent_index == (item_index - 1) \div 2
    IN  IF ~(parent_index > 0) THEN items
        ELSE LET parent == At(items, parent_index)
             IN  IF Call(comparator, parent, item) THEN items
                 ELSE InsertLoopStopsBelowRoot(
                          Put(Put(items, item_index, parent), parent_index, item),
                          parent_index, item, comparator)

\* The sift-up loop taking item_index // 2 for the parent.
RECURSIVE InsertLoopParentOfHalf(_, _, _, _)
InsertLoopParentOfHalf(items, item_index, item, comparator) ==
    LET parent_index == item_index \div 2
    IN  IF ~(parent_index >= 0) THEN items
        ELSE LET parent == At(items, parent_index)
             IN  IF Call(comparator, parent, item) THEN items
                 ELSE InsertLoopParentOfHalf(
                          Put(Put(items, item_index, parent), parent_index, item),
                          parent_index, item, comparator)

\* The while loop of insert (sift-up) from item_index.
RECURSIVE InsertLoop(_, _, _, _)
InsertLoop(items, item_index, item, comparator) ==
    LET parent_index == (item_index - 1) \div 2
    IN  IF ~(parent_index >= 0) THEN items
        ELSE LET parent == At(items, parent_index)
             IN  IF Call(comparator, parent, item) THEN items
                 ELSE InsertLoop(Put(Put(items, item_index, parent), parent_index, item),
                                 parent_index, item, comparator)

\* A pass of the sift-up loop that swaps and leaves item_index where it was
\* (without item_index = parent_index).
InsertIterationKeepsIndex(items, item_index, item, comparator) ==
    LET parent_index == (item_index - 1) \div 2
        stop == [items |-> items, item_index |-> item_index,
                 swapped |-> FALSE, done |-> TRUE]
    IN  IF ~(parent_index >= 0) THEN stop
        ELSE LET parent == At(items, parent_index)
             IN  IF Call(comparator, parent, item) THEN stop
                 ELSE [items |-> Put(Put(items, item_index, parent), parent_index, item),
                       item_index |-> item_index, swapped |-> TRUE, done |-> FALSE]

\* One pass of the while loop of insert with the item at item_index
\* (parent_index is (item_index - 1) // 2 whenever the loop tests it).
InsertIteration(items, item_index, item, comparator) ==
    LET parent_index == (item_index - 1) \div 2
        stop == [items |-> items, item_index |-> item_index,
                 swapped |-> FALSE, done |-> TRUE]
    IN  IF ~(parent_index >= 0) THEN stop
        ELSE LET parent == At(items, parent_index)
             IN  IF Call(comparator, parent, item) THEN stop
                 ELSE [items |-> Put(Put(items, item_index, parent), parent_index, item),
                       item_index |-> parent_index, swapped |-> TRUE, done |-> FALSE]

\* insert that leaves the heap alone when it holds the item already.
insert_unless_present(items, item, comparator) ==
    IF \E k \in DOMAIN items : items[k] = item
    THEN Outcome(items, <<>>, None, <<>>)
    ELSE LET appended == Append(items, item)
         IN  Outcome(InsertLoop(appended, Len(appended) - 1, item, comparator),
                     <<>>, None, <<>>)

insert(items, item, comparator) ==
    LET appended == Append(items, item)
    IN  Outcome(InsertLoop(appended, Len(appended) - 1, item, comparator),
                <<>>, None, <<>>)

\* -------------------------------------------------------------------- pop
\* pop that puts the last item at index 0 and does not push it down.
pop_without_push_down(items, comparator) ==
    IF Len(items) = 0 THEN Outcome(items, <<>>, TypeError, <<>>)
    ELSE LET rest == SubSeq(items, 1, Len(items) - 1)
         IN  IF Len(rest) > 0
             THEN Outcome(Put(rest, 0, items[Len(items)]), <<At(items, 0)>>, None, <<0>>)
             ELSE Outcome(rest, <<At(items, 0)>>, None, <<>>)

\* pop that returns the item it took from the end of the list.
pop_returns_last(items, comparator) ==
    IF Len(items) = 0 THEN Outcome(items, <<>>, TypeError, <<>>)
    ELSE LET last_item == items[Len(items)]
             rest == SubSeq(items, 1, Len(items) - 1)
         IN  IF Len(rest) > 0
             THEN Outcome(push_down(Put(rest, 0, last_item), 0, comparator),
                          <<last_item>>, None, <<0>>)
             ELSE Outcome(rest, <<last_item>>, None, <<>>)

pop(items, comparator) ==
    IF Len(items) = 0 THEN Outcome(items, <<>>, TypeError, <<>>)
    ELSE LET item == At(items, 0)
             last_item == items[Len(items)]
             rest == SubSeq(items, 1, Len(items) - 1)
         IN  IF Len(rest) > 0
             THEN Outcome(push_down(Put(rest, 0, last_item), 0, comparator),
                          <<item>>, None, <<0>>)
             ELSE Outcome(rest, <<item>>, None, <<>>)

\* ------------------------------------------------------------------- peek
\* peek that returns None from an empty heap.
peek_returns_none(items) ==
    IF Len(items) = 0 THEN Outcome(items, <<>>, None, <<>>)
    ELSE Outcome(items, <<At(items, 0)>>, None, <<>>)

\* peek that returns the last item of the list.
peek_returns_last(items) ==
    IF Len(items) = 0 THEN Outcome(items, <<>>, TypeError, <<>>)
    ELSE Outcome(items, <<items[Len(items)]>>, None, <<>>)

peek(items) ==
    IF Len(items) = 0 THEN Outcome(items, <<>>, TypeError, <<>>)
    ELSE Outcome(items, <<At(items, 0)>>, None, <<>>)

\* ------------------------------------------------------------ constructor
\* __init__ that keeps the caller's list as self._items instead of a copy.
ConstructAliased(src, heap_type, comparator_arg, ext) ==
    LET cmp == IF comparator_arg # None THEN comparator_arg
               ELSE IF heap_type = "MIN" THEN "le" ELSE "ge"
        own == IF Len(src) > 0 THEN heapify(src, cmp) ELSE src
    IN  [lists |-> [arg |-> own, own |-> <<>>, ext |-> ext],
         self_items |-> "arg",
         comparator |-> cmp]

\* __init__ that tests heap_type before comparator.
ConstructModeFirst(src, heap_type, comparator_arg, ext) ==
    LET cmp == IF heap_type = "MIN" THEN "le"
               ELSE IF heap_type = "MAX" THEN "ge"
               ELSE comparator_arg
        own == IF Len(src) > 0 THEN heapify(<<>> \o src, cmp) ELSE <<>>
    IN  [lists |-> [arg |-> src, own |-> own, ext |-> ext],
         self_items |-> "own",
         comparator |-> cmp]

\* __init__(items, heap_type, comparator) called with the list object "arg"
\* holding src: the store of lists, the reference kept in self._items and
\* self.comparator when it returns.  "ext" is a second list of the caller,
\* which __init__ is not given.
Construct(src, heap_type, comparator_arg, ext) ==
    LET cmp == IF comparator_arg # None THEN comparator_arg
               ELSE IF heap_type = "MIN" THEN "le" ELSE "ge"
        own == IF Len(src) > 0 THEN heapify(<<>> \o src, cmp) ELSE <<>>
    IN  [lists |-> [arg |-> src, own |-> own, ext |-> ext],
         self_items |-> "own",
         comparator |-> cmp]

\* ------------------------------------------------------------------ state
VARIABLES
    lists,           \* the list objects: "arg" and "ext" are the caller's, "own" the heap's
    self_items,      \* self._items: the list object the heap works on
    comparator,      \* self.comparator
    op,              \* the last call made
    input,           \* <<item>> for insert(item), <<>> otherwise
    ret,             \* <<item>> when the call returned an item, <<>> otherwise
    raised,          \* the exception the call raised, or None
    calls,           \* the indices the call passed to _push_down, in order
    orig,            \* the caller's sequence as it was when the constructor was called
    heap_type,       \* the constructor's heap_type argument
    comparator_arg,  \* the constructor's comparator argument
    phase,           \* "build" until the first pop, "drain" until an insert follows, then "mixed"
    inserted,        \* the items inserted while building, in call order
    popped,          \* the items popped while draining, in call order
    n_insert,        \* successful insert calls so far
    n_pop,           \* successful pop calls so far
    twin,            \* a second heap, built with a mode alone and given the same calls:
                     \* its list, and what its last call returned and raised
    run              \* the loop that is running, when a call is followed pass by pass

vars == <<lists, self_items, comparator, op, input, ret, raised, calls, orig, heap_type,
          comparator_arg, phase, inserted, popped, n_insert, n_pop, twin, run>>

\* self._items, self.size, self.is_empty
items == lists[self_items]
size == Len(items)
is_empty == Len(items) = 0

\* No loop is running.
Idle ==
    [fn |-> "none", list |-> "none", i |-> 0, item |-> 0, start |-> 0, swaps |-> 0,
     caller |-> "none", item_index |-> 0]

\* The twin heap is Heap(src, mode): mode is the one whose built-in comparison
\* is the predicate the heap was given, or the heap's own mode when it was
\* given no predicate.
TwinMode ==
    IF comparator_arg = "le" THEN "MIN"
    ELSE IF comparator_arg = "ge" THEN "MAX"
    ELSE heap_type

TwinComparator == Construct(<<>>, TwinMode, None, <<>>).comparator

\* The twin after a call of outcome r.
TwinAfter(r) == [items |-> r.items, ret |-> r.ret, raised |-> r.raised]

\* The state when Heap(src, ht, ca) has returned, the caller holding a
\* second list ext.
Constructed(src, ht, ca, ext) ==
    LET h == Construct(src, ht, ca, ext)
    IN  /\ lists = h.lists
        /\ self_items = h.self_items
        /\ comparator = h.comparator
        /\ op = "init"
        /\ input = <<>>
        /\ ret = <<>>
        /\ raised = None
        /\ calls = IF Len(src) > 0 THEN HeapifyCalls(src) ELSE <<>>
        /\ orig = src
        /\ heap_type = ht
        /\ comparator_arg = ca
        /\ phase = "build"
        /\ inserted = <<>>
        /\ popped = <<>>
        /\ n_insert = 0
        /\ n_pop = 0
        /\ twin = LET m == IF ca = "le" THEN "MIN" ELSE IF ca = "ge" THEN "MAX" ELSE ht
                      t == Construct(src, m, None, <<>>)
                  IN  [items |-> t.lists[t.self_items], ret |-> <<>>, raised |-> None]
        /\ run = Idle

\* Heap(src, ht, ca) for every sequence, mode and predicate within the bounds.
Init ==
    \E src \in InitSeqs, ht \in HeapType, ca \in {None} \cup Comparators :
        Constructed(src, ht, ca, <<>>)

\* The call's outcome r becomes the state.
Returns(r) ==
    /\ lists' = [lists EXCEPT ![self_items] = r.items]
    /\ ret' = r.ret
    /\ raised' = r.raised
    /\ calls' = r.calls

Insert ==
    /\ n_insert < MaxInserts
    /\ \E item \in Values :
        /\ Returns(insert(items, item, comparator))
        /\ input' = <<item>>
        /\ inserted' = IF phase = "build" THEN Append(inserted, item) ELSE <<>>
        /\ twin' = TwinAfter(insert(twin.items, item, TwinComparator))
    /\ op' = "insert"
    /\ phase' = IF phase = "build" THEN "build" ELSE "mixed"
    /\ popped' = <<>>
    /\ n_insert' = n_insert + 1
    /\ UNCHANGED <<self_items, comparator, orig, heap_type, comparator_arg, n_pop, run>>

Pop ==
    /\ op' = "pop"
    /\ input' = <<>>
    /\ Returns(pop(items, comparator))
    /\ twin' = TwinAfter(pop(twin.items, TwinComparator))
    /\ IF pop(items, comparator).raised # None
       THEN UNCHANGED <<phase, popped, n_pop>>
       ELSE /\ phase' = IF phase = "build" THEN "drain" ELSE phase
            /\ popped' = IF phase = "mixed" THEN <<>>
                         ELSE popped \o pop(items, comparator).ret
            /\ n_pop' = n_pop + 1
    /\ UNCHANGED <<self_items, comparator, orig, heap_type, comparator_arg, inserted,
                   n_insert, run>>

Peek ==
    /\ op' = "peek"
    /\ input' = <<>>
    /\ Returns(peek(items))
    /\ twin' = TwinAfter(peek(twin.items))
    /\ UNCHANGED <<self_items, comparator, orig, heap_type, comparator_arg,
                   phase, inserted, popped, n_insert, n_pop, run>>

\* heapify that works on self._items whatever list it is given.
HeapifyOfOwnList(l) ==
    /\ input' = <<>>
    /\ ret' = <<>>
    /\ raised' = None
    /\ calls' = HeapifyCalls(lists[self_items])
    /\ lists' = [lists EXCEPT ![self_items] = heapify(lists[self_items], comparator)]
    /\ UNCHANGED <<self_items, comparator, orig, heap_type, comparator_arg,
                   phase, inserted, popped, n_insert, n_pop, run>>

\* heapify(l) for the list object l.  A list of length 0 or 1 is returned as
\* it is (the same object), which the state already holds; otherwise the call
\* returns None.
Heapify(l) ==
    /\ input' = <<>>
    /\ ret' = <<>>
    /\ raised' = None
    /\ calls' = HeapifyCalls(lists[l])
    /\ lists' = [lists EXCEPT ![l] = heapify(lists[l], comparator)]
    /\ UNCHANGED <<self_items, comparator, orig, heap_type, comparator_arg,
                   phase, inserted, popped, n_insert, n_pop, run>>

\* heap.heapify(heap._items)
HeapifyOwn ==
    /\ op' = "heapify_own"
    /\ Heapify(self_items)
    /\ twin' = [items |-> heapify(twin.items, TwinComparator), ret |-> <<>>, raised |-> None]

\* heap.heapify(ext) for the caller's list ext
HeapifyExternal ==
    /\ op' = "heapify_external"
    /\ Heapify("ext")
    /\ twin' = [twin EXCEPT !.ret = <<>>, !.raised = None]

Next ==
    \/ Insert
    \/ Pop
    \/ Peek
    \/ HeapifyOwn

Spec == Init /\ [][Next]_vars

\* heapify as a function of its argument: the heap is built from a sequence
\* of up to MaxExt items of which the caller keeps a second list, ext, and
\* heapify is then called on ext and on the heap's own list.
InitHeapify ==
    \E src \in ExtSeqs, ht \in HeapType, ca \in {None} \cup Comparators :
        Constructed(src, ht, ca, src)

NextHeapify ==
    \/ HeapifyExternal
    \/ HeapifyOwn
    \/ Peek

SpecHeapify == InitHeapify /\ [][NextHeapify]_vars

\* ------------------------------------------------------- calls pass by pass
\* One call is made on the constructed heap or on the caller's list ext and
\* followed through its loop, one pass of the loop at a step.

\* The frame of _push_down(items, i) on the list object l: item = items[i]
\* is read before the loop.  caller and item_index are those of the heapify
\* loop that made the call, if one did.
PushDownFrame(l, i, caller, item_index) ==
    [fn |-> "_push_down", list |-> l, i |-> i, item |-> At(lists[l], i), start |-> i,
     swaps |-> 0, caller |-> caller, item_index |-> item_index]

\* heap._push_down(ext, i)
PushDownCall ==
    /\ op = "init"
    /\ \E i \in 0..(Len(lists["ext"]) - 1) :
          /\ run' = PushDownFrame("ext", i, "none", 0)
          /\ calls' = <<i>>
    /\ op' = "_push_down"
    /\ input' = <<>>
    /\ ret' = <<>>
    /\ raised' = None
    /\ UNCHANGED <<lists, self_items, comparator, orig, heap_type, comparator_arg,
                   phase, inserted, popped, n_insert, n_pop, twin>>

\* One pass of the loop of _push_down; when the loop ends the call returns,
\* to the loop of heapify (which then decrements item_index) if that made it.
PushDownStep ==
    /\ run.fn = "_push_down"
    /\ LET r == PushDownIteration(lists[run.list], run.i, run.item, comparator)
       IN  /\ lists' = [lists EXCEPT ![run.list] = r.items]
           /\ run' = IF ~r.done
                      THEN [run EXCEPT !.i = r.i, !.swaps = run.swaps + 1]
                      ELSE IF run.caller = "heapify"
                      THEN [Idle EXCEPT !.fn = "heapify", !.list = run.list,
                                        !.item_index = run.item_index - 1]
                      ELSE Idle
    /\ UNCHANGED <<self_items, comparator, op, input, ret, raised, calls, orig, heap_type,
                   comparator_arg, phase, inserted, popped, n_insert, n_pop, twin>>

\* heap.heapify(ext): up to the while loop.
HeapifyCall ==
    /\ op = "init"
    /\ op' = "heapify_external"
    /\ run' = IF Len(lists["ext"]) \in {0, 1} THEN Idle
              ELSE [Idle EXCEPT !.fn = "heapify", !.list = "ext",
                                !.item_index = HeapifyStart(Len(lists["ext"]))]
    /\ calls' = <<>>
    /\ input' = <<>>
    /\ ret' = <<>>
    /\ raised' = None
    /\ UNCHANGED <<lists, self_items, comparator, orig, heap_type, comparator_arg,
                   phase, inserted, popped, n_insert, n_pop, twin>>

\* The test of heapify's while loop: it calls _push_down or ends.
HeapifyStep ==
    /\ run.fn = "heapify"
    /\ IF run.item_index >= 0
       THEN /\ run' = PushDownFrame(run.list, run.item_index, "heapify", run.item_index)
            /\ calls' = Append(calls, run.item_index)
       ELSE /\ run' = Idle
            /\ calls' = calls
    /\ UNCHANGED <<lists, self_items, comparator, op, input, ret, raised, orig, heap_type,
                   comparator_arg, phase, inserted, popped, n_insert, n_pop, twin>>

\* heap.insert(item): up to the while loop.
InsertCall ==
    /\ op = "init"
    /\ n_insert < MaxInserts
    /\ \E item \in Values :
          /\ lists' = [lists EXCEPT ![self_items] = Append(items, item)]
          /\ run' = [Idle EXCEPT !.fn = "insert", !.list = self_items, !.i = size,
                                 !.item = item, !.start = size]
          /\ input' = <<item>>
    /\ op' = "insert"
    /\ ret' = <<>>
    /\ raised' = None
    /\ calls' = <<>>
    /\ UNCHANGED <<self_items, comparator, orig, heap_type, comparator_arg,
                   phase, inserted, popped, n_insert, n_pop, twin>>

\* One pass of the loop of insert; when the loop ends the call returns.
InsertStep ==
    /\ run.fn = "insert"
    /\ LET r == InsertIteration(lists[run.list], run.i, run.item, comparator)
       IN  /\ lists' = [lists EXCEPT ![run.list] = r.items]
           /\ IF ~r.done
              THEN /\ run' = [run EXCEPT !.i = r.item_index, !.swaps = run.swaps + 1]
                   /\ UNCHANGED <<inserted, n_insert, twin>>
              ELSE /\ run' = Idle
                   /\ inserted' = Append(inserted, run.item)
                   /\ n_insert' = n_insert + 1
                   /\ twin' = TwinAfter(insert(twin.items, run.item, TwinComparator))
    /\ UNCHANGED <<self_items, comparator, op, input, ret, raised, calls, orig, heap_type,
                   comparator_arg, phase, popped, n_pop>>

NextSteps ==
    \/ PushDownCall
    \/ PushDownStep
    \/ HeapifyCall
    \/ HeapifyStep
    \/ InsertCall
    \/ InsertStep

SpecSteps == InitHeapify /\ [][NextSteps]_vars

\* A call that has been made runs on: the interpreter takes the next pass of
\* a loop that has not ended.
SpecStepsFair ==
    SpecSteps /\ WF_vars(PushDownStep) /\ WF_vars(HeapifyStep) /\ WF_vars(InsertStep)

\* ------------------------------------------------------------ vocabulary
\* The heap invariant of a sequence under a comparator.
IsHeap(s, cmp) ==
    \A i \in 0..(Len(s) - 1) :
        \A c \in {2 * i + 1, 2 * i + 2} :
            c < Len(s) => Call(cmp, At(s, i), At(s, c))

\* How many times v occurs in s.
Count(s, v) == Cardinality({k \in DOMAIN s : s[k] = v})

\* s and t hold the same items with the same multiplicities.
SameItems(s, t) == \A v \in Values : Count(s, v) = Count(t, v)

\* v is extremal in s: the comparator holds between v and every item of s.
Extremal(v, s, cmp) == \A k \in DOMAIN s : Call(cmp, v, s[k])

\* s without its first occurrence of v.
RemoveOne(s, v) ==
    LET k == CHOOSE j \in DOMAIN s : s[j] = v /\ \A h \in 1..(j - 1) : s[h] # v
    IN  SubSeq(s, 1, k - 1) \o SubSeq(s, k + 1, Len(s))

\* s sorted under the ordering: ascending for "le", descending for "ge".
RECURSIVE Sorted(_, _)
Sorted(s, cmp) ==
    IF Len(s) = 0 THEN <<>>
    ELSE LET m == CHOOSE v \in Values :
                      (\E k \in DOMAIN s : s[k] = v) /\ Extremal(v, s, cmp)
         IN  <<m>> \o Sorted(RemoveOne(s, m), cmp)

\* j lies in the subtree rooted at i (parent of j is (j - 1) // 2).
RECURSIVE InSubtree(_, _)
InSubtree(j, i) ==
    IF j = i THEN TRUE
    ELSE IF j < i THEN FALSE
    ELSE InSubtree((j - 1) \div 2, i)

\* A call followed pass by pass leaves what the call made at once leaves.
StepsAgree ==
    run.fn = "none" =>
        /\ op = "_push_down" => lists["ext"] = push_down(orig, calls[1], comparator)
        /\ op = "heapify_external" =>
              /\ lists["ext"] = heapify(orig, comparator)
              /\ calls = HeapifyCalls(orig)
        /\ op = "insert" =>
              items = insert(heapify(orig, comparator), input[1], comparator).items

TypeOK ==
    /\ self_items \in {"arg", "own", "ext"}
    /\ comparator \in Comparators
    /\ \A l \in DOMAIN lists : lists[l] \in Seq(Values)

\* ------------------------------------------------------------------ claims
\* C1: Heap invariant.  In every state reached by constructing a heap and
\* then calling insert, pop and heapify in any order, the comparator holds
\* between the item at every index and the item at each child index that
\* exists: parent <= child for a MIN heap, parent >= child for a MAX heap.
C1_HeapInvariant ==
    /\ IsHeap(items, comparator)
    /\ comparator_arg = None =>
         \A i \in 0..(size - 1) : \A c \in {2 * i + 1, 2 * i + 2} :
            c < size => IF heap_type = "MIN" THEN At(items, i) <= At(items, c)
                        ELSE At(items, i) >= At(items, c)

\* A heap of at least four items that has seen an insert and a pop and on
\* which heapify was just called.
C1_Witness ==
    /\ op = "heapify_own"
    /\ n_insert > 0
    /\ n_pop > 0
    /\ size >= 4
    /\ \E i, j \in DOMAIN items : items[i] # items[j]

\* C2: Pop ordering.  When a heap built from a sequence (the constructor's
\* sequence followed by the inserted items) is popped until it is empty, the
\* popped items are that sequence sorted under the ordering, ascending for
\* MIN and descending for MAX, every item as often as it was given.
C2_PopOrdering ==
    (phase = "drain" /\ is_empty) =>
        /\ popped = Sorted(orig \o inserted, comparator)
        /\ SameItems(popped, orig \o inserted)
        /\ \A k \in 1..(Len(popped) - 1) :
              IF comparator = "le" THEN popped[k] <= popped[k + 1]
              ELSE popped[k] >= popped[k + 1]

\* A heap built by the constructor and an insert, with a repeated item,
\* popped until empty.
C2_Witness ==
    /\ phase = "drain"
    /\ is_empty
    /\ op = "pop"
    /\ Len(inserted) > 0
    /\ Len(popped) >= 5
    /\ \E i, j \in DOMAIN popped : i # j /\ popped[i] = popped[j]
    /\ \E i, j \in DOMAIN popped : popped[i] # popped[j]
    /\ orig \o inserted # popped

\* C3: pop on a non-empty heap returns an item that was extremal among the
\* items held before the call, removes one occurrence of it and nothing else,
\* makes the heap one item smaller and leaves the heap invariant holding; a
\* heap of one item becomes empty without a call of _push_down.
C3_PopStep ==
    (op' = "pop" /\ ~is_empty) =>
        /\ raised' = None
        /\ Len(ret') = 1
        /\ \E k \in DOMAIN items : items[k] = ret'[1]
        /\ Extremal(ret'[1], items, comparator)
        /\ \A v \in Values :
              Count(items', v) = Count(items, v) - (IF v = ret'[1] THEN 1 ELSE 0)
        /\ size' = size - 1
        /\ IsHeap(items', comparator)
        /\ size = 1 => (is_empty' /\ calls' = <<>>)
        /\ size > 1 => calls' = <<0>>

\* C3, over behaviours: every step that is a pop from a non-empty heap does the above.
C3_Pop == [][C3_PopStep]_vars

\* A pop that took the root of a heap of five items, neither all equal, and
\* left a heap that had to be rearranged.
C3_Witness ==
    /\ op = "pop"
    /\ raised = None
    /\ size = 4
    /\ calls = <<0>>
    /\ \E i, j \in DOMAIN items : items[i] # items[j]

\* C4: pop and peek on a heap of zero items raise the error and leave the
\* heap as it was: the list stays empty, and an insert afterwards works as on
\* any empty heap.
C4_EmptyStep ==
    /\ (op' \in {"pop", "peek"} /\ is_empty) =>
          /\ raised' = TypeError
          /\ ret' = <<>>
          /\ lists' = lists
          /\ is_empty'
          /\ size' = 0
          /\ n_pop' = n_pop
    /\ (op \in {"pop", "peek"} /\ raised = TypeError /\ op' = "insert") =>
          /\ raised' = None
          /\ items' = input'

\* C4, over behaviours: every pop, peek and insert step at an empty heap does the above.
C4_Empty == [][C4_EmptyStep]_vars

\* A pop that failed on a heap emptied by earlier pops.
C4_Witness ==
    /\ op = "pop"
    /\ raised = TypeError
    /\ n_pop >= 2
    /\ is_empty

\* C5: peek on a non-empty heap returns the item at index 0, which is
\* extremal and is what a pop right after it returns, and changes nothing,
\* however often it is called.
C5_PeekStep ==
    /\ (op' = "peek" /\ ~is_empty) =>
          /\ raised' = None
          /\ ret' = <<At(items, 0)>>
          /\ Extremal(ret'[1], items, comparator)
          /\ lists' = lists
          /\ size' = size
    /\ (op = "peek" /\ raised = None /\ op' \in {"pop", "peek"}) =>
          ret' = ret

\* C5, over behaviours: every peek step, and the call after it, does the above.
C5_Peek == [][C5_PeekStep]_vars

\* A peek at a heap of several items, not all equal.
C5_Witness ==
    /\ op = "peek"
    /\ raised = None
    /\ size >= 4
    /\ \E i \in DOMAIN items : items[i] # ret[1]

\* C6 as the specification states it: size is the number of successful
\* inserts minus the number of successful pops.
C6_SizeIsInsertsMinusPops ==
    /\ size = n_insert - n_pop
    /\ is_empty <=> (size = 0)

\* C6: Size accounting.  size is the length of the sequence the constructor
\* was given plus the number of successful inserts minus the number of
\* successful pops, and is_empty is true exactly when size is 0.
C6_SizeAccounting ==
    /\ size = Len(orig) + n_insert - n_pop
    /\ is_empty <=> (size = 0)

\* A heap built from a sequence, after an insert, pops and a failed pop.
C6_Witness ==
    /\ Len(orig) >= 2
    /\ n_insert > 0
    /\ n_pop > Len(orig)
    /\ op = "pop"
    /\ raised = TypeError

\* s is in heap order: the invariant holds, the item at index 0 is extremal
\* and the item at every index is extremal within the subtree rooted there.
HeapOrdered(s, cmp) ==
    /\ IsHeap(s, cmp)
    /\ Len(s) > 0 => Extremal(At(s, 0), s, cmp)
    /\ \A i, j \in 0..(Len(s) - 1) :
          InSubtree(j, i) => Call(cmp, At(s, i), At(s, j))

\* C7: Heapify correctness.  After heapify of any sequence, of any length and
\* arrangement, the sequence is in heap order; so is the heap's list when the
\* constructor, which calls heapify, returns.
C7_Heapify ==
    /\ op = "heapify_external" => HeapOrdered(lists["ext"], comparator)
    /\ op \in {"init", "heapify_own"} => HeapOrdered(items, comparator)

\* heapify has rearranged a list of six or more items with repeated items.
C7_Witness ==
    /\ op = "heapify_external"
    /\ Len(lists["ext"]) >= 6
    /\ lists["ext"] # orig
    /\ ~IsHeap(orig, comparator)
    /\ \E i, j \in DOMAIN orig : orig[i] # orig[j]

\* C8: insert(x) succeeds and makes the heap one item larger; peek then
\* returns x when the heap was empty or x strictly precedes the old root, and
\* the old root otherwise; every item is held as often as before, and x once
\* more.
C8_InsertStep ==
    (op' = "insert") =>
        LET x == input'[1]
        IN  /\ raised' = None
            /\ size' = size + 1
            /\ peek(items').ret =
                  IF is_empty THEN <<x>>
                  ELSE IF Call(comparator, x, At(items, 0))
                          /\ ~Call(comparator, At(items, 0), x)
                       THEN <<x>>
                       ELSE <<At(items, 0)>>
            /\ \A v \in Values :
                  Count(items', v) = Count(items, v) + (IF v = x THEN 1 ELSE 0)

\* C8, over behaviours: every insert step does the above.
C8_Insert == [][C8_InsertStep]_vars

\* The inserted item went from index 4 up to the root of a heap that did not
\* hold it.
C8_Witness ==
    /\ op = "insert"
    /\ size >= 5
    /\ At(items, 0) = input[1]
    /\ Count(items, input[1]) = 1

\* C9: the constructor copies its sequence.  The caller's list is as it was
\* when the constructor returns and after every later call, and the heap's
\* list is then a rearrangement of it that satisfies the heap invariant.
C9_ConstructorCopies ==
    /\ lists["arg"] = orig
    /\ op = "init" =>
          /\ SameItems(items, orig)
          /\ Len(items) = Len(orig)
          /\ IsHeap(items, comparator)

\* The caller's list is not in heap order, and the heap built from it has
\* seen an insert and a pop.
C9_Witness ==
    /\ Len(orig) >= 3
    /\ ~IsHeap(orig, comparator)
    /\ n_insert > 0
    /\ n_pop > 0
    /\ size > 0

\* C10: a predicate given to the constructor wins over the mode.  The heap
\* compares with the predicate in heapify, insert and pop: its list, and what
\* each call returns or raises, are those of a heap built with the mode whose
\* comparison is the predicate.
C10_PredicateWins ==
    comparator_arg # None =>
        /\ comparator = comparator_arg
        /\ IsHeap(items, comparator_arg)
        /\ items = twin.items
        /\ ret = twin.ret
        /\ raised = twin.raised

\* A heap built with mode MAX and predicate <= after an insert and a pop.
C10_Witness ==
    /\ heap_type = "MAX"
    /\ comparator_arg = "le"
    /\ n_insert > 0
    /\ n_pop > 0
    /\ size >= 3
    /\ \E i, j \in DOMAIN items : items[i] # items[j]

\* The list the last heapify call was given.
Heapified == IF op = "heapify_external" THEN lists["ext"] ELSE items

\* C11: heapify of a sequence of n >= 2 items starts at the last internal
\* index, n // 2 - 1, and calls _push_down once at each index from there down
\* to 0, in decreasing order, and at no leaf.
C11_StartsAtLastInternal ==
    (op \in {"heapify_external", "heapify_own"} /\ Len(Heapified) >= 2) =>
        /\ calls = Countdown(Len(Heapified) \div 2 - 1)
        /\ \A k \in DOMAIN calls : 2 * calls[k] + 1 < Len(Heapified)

\* The subtree of s rooted at index i satisfies the heap invariant (an index
\* past the end roots the empty subtree).
SubtreeIsHeap(s, i, cmp) ==
    \A j \in 0..(Len(s) - 1) :
        InSubtree(j, i) =>
            \A c \in {2 * j + 1, 2 * j + 2} :
                c < Len(s) => Call(cmp, At(s, j), At(s, c))

\* The indices at which s and t differ (s and t of one length).
Changed(s, t) == {j \in 0..(Len(s) - 1) : At(s, j) # At(t, j)}

\* C12: the contract of _push_down.  When the subtrees below i both satisfy
\* the heap invariant, _push_down(items, i) leaves the subtree rooted at i in
\* heap order and the sequence a rearrangement of what it was, of the same
\* length, and every index it changed lies on one path downward from i: while
\* the loop runs, on the path from i to the index the loop is at.
C12_SiftDownContract ==
    (op = "_push_down"
     /\ SubtreeIsHeap(orig, 2 * calls[1] + 1, comparator)
     /\ SubtreeIsHeap(orig, 2 * calls[1] + 2, comparator)) =>
        LET before == orig
            after == lists["ext"]
            i == calls[1]
        IN  /\ Len(after) = Len(before)
            /\ SameItems(after, before)
            /\ \A j \in Changed(before, after) : InSubtree(j, i)
            /\ \A j, k \in Changed(before, after) : InSubtree(j, k) \/ InSubtree(k, j)
            /\ run.fn = "_push_down" =>
                  /\ At(after, run.i) = At(before, i)
                  /\ \A j \in Changed(before, after) : InSubtree(run.i, j)
            /\ run.fn = "none" => SubtreeIsHeap(after, i, comparator)

\* _push_down(ext, 0) has returned after taking the root of six items or
\* more, whose subtrees were in heap order, down two levels.
C12_Witness ==
    /\ op = "_push_down"
    /\ run.fn = "none"
    /\ calls = <<0>>
    /\ Len(orig) >= 6
    /\ SubtreeIsHeap(orig, 1, comparator)
    /\ SubtreeIsHeap(orig, 2, comparator)
    /\ ~IsHeap(orig, comparator)
    /\ \E j \in 3..(Len(orig) - 1) : At(lists["ext"], j) # At(orig, j)

\* C13: one pass of _push_down.  With the element at index i, the candidate
\* is the right child when there is one and comparator(right, left) holds, and
\* the left child otherwise.  The pass swaps the element with the candidate
\* exactly when comparator(candidate, element) holds, and the loop goes on
\* from the candidate's index; otherwise the loop ends with the sequence as it
\* was, as it does at once at an index without a left child.  The item a swap
\* moves up satisfies the comparator against its sibling.
C13_SiftDownStep ==
    (run.fn = "_push_down") =>
        LET s == lists[run.list]
            t == lists'[run.list]
            i == run.i
            element == run.item
            left == 2 * i + 1
            right == 2 * i + 2
            candidate == IF right < Len(s) /\ Call(comparator, At(s, right), At(s, left))
                         THEN right ELSE left
            sibling == IF candidate = left THEN right ELSE left
        IN  /\ At(s, i) = element
            /\ IF left < Len(s) /\ Call(comparator, At(s, candidate), element)
               THEN /\ t = [s EXCEPT ![i + 1] = s[candidate + 1], ![candidate + 1] = element]
                    /\ run'.fn = "_push_down"
                    /\ run'.i = candidate
                    /\ run'.item = element
                    /\ sibling < Len(s) => Call(comparator, At(t, i), At(t, sibling))
               ELSE /\ t = s
                    /\ run'.fn # "_push_down"
            /\ \A l \in DOMAIN lists : l # run.list => lists'[l] = lists[l]

\* C13, over behaviours: every pass of _push_down does the above.
C13_SiftDown == [][C13_SiftDownStep]_vars

\* Two passes have swapped, the second with a right child whose sibling holds
\* a different item.
C13_Witness ==
    /\ run.fn = "_push_down"
    /\ run.swaps = 2
    /\ run.i = 2 * run.start + 4
    /\ At(lists[run.list], run.i - 1) # At(lists[run.list], (run.i - 1) \div 2)

\* The height of the tree below index i in a sequence of n items: the levels
\* below i that hold an item (the leftmost path down is the longest).
RECURSIVE HeightBelow(_, _)
HeightBelow(i, n) == IF 2 * i + 1 < n THEN 1 + HeightBelow(2 * i + 1, n) ELSE 0

\* The depth of index i: the levels between it and the root.
Depth(i) == FloorLog2(i + 1)

\* C14, the bounds.  A _push_down started at index i of n items has made at
\* most as many swaps as the tree is high below i, at most floor(log2 n), and
\* each swap took it one level down; the sift-up of insert has made at most as
\* many swaps as the last index is deep, each taking it one level up, and is at
\* index 0 or above; heapify has made at most n calls of _push_down.
C14_Bounds ==
    /\ run.fn = "_push_down" =>
          LET n == Len(lists[run.list])
          IN  /\ run.swaps <= HeightBelow(run.start, n)
              /\ run.swaps <= FloorLog2(n)
              /\ run.i < n
              /\ Depth(run.i) = Depth(run.start) + run.swaps
    /\ run.fn = "insert" =>
          LET n == Len(lists[run.list])
          IN  /\ run.start = n - 1
              /\ run.swaps <= Depth(n - 1)
              /\ run.i >= 0
              /\ Depth(run.i) = Depth(run.start) - run.swaps
    /\ op = "heapify_external" => Len(calls) <= Len(lists["ext"])

\* C14, the passes.  A pass of _push_down that goes on has a larger index
\* than the one before, a pass of the sift-up that goes on a smaller one; the
\* sift-up at index 0 ends; each return of _push_down to heapify takes
\* heapify's index down by one.
C14_Step ==
    /\ (run.fn = "_push_down" /\ run'.fn = "_push_down") =>
          /\ run'.i > run.i
          /\ run'.swaps = run.swaps + 1
    /\ (run.fn = "insert" /\ run'.fn = "insert") =>
          /\ run'.i < run.i
          /\ run'.swaps = run.swaps + 1
    /\ (run.fn = "insert" /\ run.i = 0) => run'.fn = "none"
    /\ (run.fn = "_push_down" /\ run'.fn = "heapify") =>
          run'.item_index = run.item_index - 1
    /\ (run.fn = "heapify" /\ run.item_index < 0) => run'.fn = "none"

\* C14: every operation terminates.  The bounds hold in every state, every
\* pass moves the index as above, and a call that is running returns.
C14_Terminates ==
    /\ []C14_Bounds
    /\ [][C14_Step]_vars
    /\ (run.fn # "none") ~> (run.fn = "none")

\* heapify of six items is in its last _push_down, at the root, which has
\* swapped twice: as often as the tree is high.
C14_Witness ==
    /\ op = "heapify_external"
    /\ run.fn = "_push_down"
    /\ run.caller = "heapify"
    /\ run.start = 0
    /\ run.swaps = 2
    /\ Len(lists["ext"]) = 6
    /\ Len(calls) = 4

\* The parent of index j.
Parent(j) == (j - 1) \div 2

\* C15: the sift-up of insert touches the path from the new last index to
\* the root and nothing else.  The item ends at an index f of that path; every
\* index of the path below f holds what its parent held, every other index
\* what it held; the comparator held between none of the items passed and the
\* new item, and f is the root or the comparator holds between the item at
\* f's parent and the new item.
C15_InsertStep ==
    (op' = "insert") =>
        LET item == input'[1]
            last == Len(items)
            before == Append(items, item)
            after == items'
        IN  /\ Len(after) = Len(before)
            /\ \E f \in 0..last :
                  /\ InSubtree(last, f)
                  /\ At(after, f) = item
                  /\ \A j \in 0..last :
                        IF j # f /\ InSubtree(j, f) /\ InSubtree(last, j)
                        THEN /\ At(after, j) = At(before, Parent(j))
                             /\ ~Call(comparator, At(before, Parent(j)), item)
                        ELSE j # f => At(after, j) = At(before, j)
                  /\ f = 0 \/ Call(comparator, At(before, Parent(f)), item)

\* C15, over behaviours: every insert step does the above.
C15_Insert == [][C15_InsertStep]_vars

\* The item inserted at index 4 of a heap went up to the root past two items
\* that differ from it, which are now one level lower.
C15_Witness ==
    /\ op = "insert"
    /\ size = 5
    /\ At(items, 0) = input[1]
    /\ At(items, 1) # input[1]
    /\ At(items, 4) # input[1]

\* C16, the account.  While every insert came before every pop, the heap's
\* items and the items popped are together the items of the initial sequence
\* and the items inserted, each as often.
C16_Account ==
    phase \in {"build", "drain"} =>
        \A v \in Values :
            Count(items, v) + Count(popped, v) = Count(orig, v) + Count(inserted, v)

\* C16, the calls.  insert adds one occurrence of its item and nothing else,
\* a pop that returns takes away one occurrence of the item it returns and
\* nothing else, a pop that raises and peek leave the list as it is, and
\* heapify leaves the items and the length as they are.
C16_Step ==
    /\ (op' = "insert") =>
          /\ Len(items') = Len(items) + 1
          /\ \A v \in Values :
                Count(items', v) = Count(items, v) + (IF v = input'[1] THEN 1 ELSE 0)
    /\ (op' = "pop" /\ raised' = None) =>
          /\ Len(items') = Len(items) - 1
          /\ \A v \in Values :
                Count(items', v) = Count(items, v) - (IF v = ret'[1] THEN 1 ELSE 0)
    /\ (op' = "pop" /\ raised' # None) => items' = items
    /\ (op' = "peek") => items' = items
    /\ (op' = "heapify_own") =>
          /\ Len(items') = Len(items)
          /\ SameItems(items', items)

\* C16: element conservation.  The account holds in every state, from the
\* constructor on, and every call changes the items held as above.
C16_Conservation ==
    /\ []C16_Account
    /\ [][C16_Step]_vars

\* After an insert into a heap of four items and two pops, three items are
\* left, not all equal, and items are held twice.
C16_Witness ==
    /\ phase = "drain"
    /\ Len(orig) = 4
    /\ n_insert = 1
    /\ n_pop = 2
    /\ size = 3
    /\ \E i, j \in DOMAIN items : items[i] # items[j]
    /\ \E i, j \in DOMAIN orig : i # j /\ orig[i] = orig[j]

\* C17: heapify is idempotent.  heapify of a sequence that satisfies the heap
\* invariant, under <= or >=, leaves every item where it was, so a second
\* heapify changes nothing; a sequence of 0 or 1 items is left as it is.
C17_IdempotentStep ==
    /\ (op' = "heapify_external" /\ IsHeap(lists["ext"], comparator)) =>
          lists'["ext"] = lists["ext"]
    /\ (op' = "heapify_own" /\ IsHeap(items, comparator)) => items' = items
    /\ (op' = "heapify_external" /\ Len(lists["ext"]) <= 1) =>
          lists'["ext"] = lists["ext"]
    /\ (op = "heapify_external" /\ op' = "heapify_external") =>
          lists'["ext"] = lists["ext"]

\* C17, over behaviours: every heapify step does the above.
C17_Idempotent == [][C17_IdempotentStep]_vars

\* heapify was called on a list of six items or more, not all equal, that
\* was in heap order, and left it so.
C17_Witness ==
    /\ op = "heapify_external"
    /\ IsHeap(orig, comparator)
    /\ Len(orig) >= 6
    /\ \E i, j \in DOMAIN orig : orig[i] # orig[j]
    /\ lists["ext"] = orig

\* C18: heapify called through a heap on a list of the caller's rearranges
\* that list into heap order and nothing else: the heap's own list, its size,
\* what peek returns and its comparator are as before.
C18_ExternalStep ==
    (op' = "heapify_external") =>
        /\ lists'["own"] = lists["own"]
        /\ lists'["arg"] = lists["arg"]
        /\ self_items' = self_items
        /\ items' = items
        /\ size' = size
        /\ peek(items') = peek(items)
        /\ comparator' = comparator
        /\ SameItems(lists'["ext"], lists["ext"])
        /\ Len(lists'["ext"]) = Len(lists["ext"])
        /\ IsHeap(lists'["ext"], comparator)

\* C18, over behaviours: every heapify of the caller's list does the above.
C18_External == [][C18_ExternalStep]_vars

\* heapify has rearranged the caller's list beside a heap of four items or
\* more.
C18_Witness ==
    /\ op = "heapify_external"
    /\ lists["ext"] # orig
    /\ size >= 4
    /\ lists["arg"] = orig
    /\ \E i, j \in DOMAIN items : items[i] # items[j]

\* C19: for every n >= 2 the index heapify starts at, 2 ** floor(log2 n) - 1,
\* is an index of the sequence and is not below the last internal index
\* n // 2 - 1: every call of _push_down is within the sequence and every
\* internal index is passed to _push_down exactly once.
C19_StartIndex ==
    /\ \A n \in 2..MaxCount :
          /\ HeapifyStart(n) <= n - 1
          /\ HeapifyStart(n) >= n \div 2 - 1
    /\ (op \in {"heapify_external", "heapify_own"} /\ Len(Heapified) >= 2) =>
          LET n == Len(Heapified)
          IN  /\ calls[1] = HeapifyStart(n)
              /\ \A k \in DOMAIN calls : calls[k] >= 0 /\ calls[k] <= n - 1
              /\ \A i \in 0..(n - 1) :
                    2 * i + 1 < n => Cardinality({k \in DOMAIN calls : calls[k] = i}) = 1

\* heapify of six items started at index 3, above the last internal index 2.
C19_Witness ==
    /\ op = "heapify_external"
    /\ Len(lists["ext"]) = 6
    /\ calls[1] = 3
    /\ lists["ext"] # orig

====
